---- MODULE Spec2Model ----
(***************************************************************************)
(* The four pydantic teaching scripts of the repository                    *)
(*   serialization.py    class User(name, age), model_dump()               *)
(*   field_validator.py  class Patient with Field(gt=0, lt=120), AnyUrl,   *)
(*                       EmailStr, Optional[bool]=None, list, dict         *)
(*   computed_filed.py   class Patient(weight, height) with computed BMI   *)
(*   nested_models.py    class Address and class Patient(name,age,address) *)
(* as a state machine: a class is instantiated from keyword arguments      *)
(* (BaseModel.__init__), its attributes are read and assigned, and it is   *)
(* exported with model_dump().  The classes declare no model_config, so    *)
(* the library defaults apply: lax (coercing) validation, extra='ignore',  *)
(* frozen=False, validate_assignment=False, revalidate_instances='never'.  *)
(*                                                                         *)
(* Python values are tagged records.  A str is the tuple of its            *)
(* characters, so that parsing is computed and not assumed.  A float is a  *)
(* fixed-point number of hundredths (45.34 is 4534): every float the       *)
(* scripts use has at most two decimals.  A dict is the sequence of its    *)
(* key/value pairs in insertion order.                                     *)
(***************************************************************************)
EXTENDS Integers, Sequences, FiniteSets, TLC

VARIABLES cls, raw, result, inst, out, got, exc, op, args

vars == <<cls, raw, result, inst, out, got, exc, op, args>>

(***************************************************************************)
(* Python values                                                           *)
(***************************************************************************)
PyStr(s) == [t |-> "str", s |-> s, n |-> 0]
PyInt(n) == [t |-> "int", s |-> <<>>, n |-> n]
PyFloat(n) == [t |-> "float", s |-> <<>>, n |-> n]
PyBool(b) == [t |-> "bool", s |-> <<>>, n |-> IF b THEN 1 ELSE 0]
PyNone == [t |-> "none", s |-> <<>>, n |-> 0]
Url(s) == [t |-> "url", s |-> s, n |-> 0]
PyList(items) == [t |-> "list", items |-> items]
PyDict(pairs) == [t |-> "dict", pairs |-> pairs]
Model(c, pairs) == [t |-> "model", cls |-> c, pairs |-> pairs]

Pair(k, v) == [k |-> k, v |-> v]

Keys(pairs) == {pairs[i].k : i \in 1..Len(pairs)}

Has(pairs, k) == k \in Keys(pairs)

Get(pairs, k) == pairs[CHOOSE i \in 1..Len(pairs) : pairs[i].k = k].v

\* d[k] = v on a dict: replaces the value in place, or appends a new key
Put(pairs, k, v) ==
    IF Has(pairs, k)
    THEN [i \in 1..Len(pairs) |-> IF pairs[i].k = k THEN Pair(k, v) ELSE pairs[i]]
    ELSE Append(pairs, Pair(k, v))

(***************************************************************************)
(* Characters and number parsing                                           *)
(***************************************************************************)
Digits == <<"0", "1", "2", "3", "4", "5", "6", "7", "8", "9">>

IsDigit(c) == \E i \in 1..10 : Digits[i] = c

DigitValue(c) == (CHOOSE i \in 1..10 : Digits[i] = c) - 1

AllDigits(s) == Len(s) > 0 /\ \A i \in 1..Len(s) : IsDigit(s[i])

RECURSIVE ParseDigits(_)
ParseDigits(s) ==
    IF s = <<>> THEN 0
    ELSE 10 * ParseDigits(SubSeq(s, 1, Len(s) - 1)) + DigitValue(s[Len(s)])

IndexOf(s, c) ==
    IF \E i \in 1..Len(s) : s[i] = c
    THEN CHOOSE i \in 1..Len(s) : s[i] = c /\ \A j \in 1..(i - 1) : s[j] # c
    ELSE 0

Count(s, c) == Cardinality({i \in 1..Len(s) : s[i] = c})

Unsigned(s) == IF Len(s) > 0 /\ s[1] = "-" THEN Tail(s) ELSE s

Sign(s) == IF Len(s) > 0 /\ s[1] = "-" THEN -1 ELSE 1

IntPart(s) == IF IndexOf(s, ".") = 0 THEN s ELSE SubSeq(s, 1, IndexOf(s, ".") - 1)

FracPart(s) == IF IndexOf(s, ".") = 0 THEN <<>> ELSE SubSeq(s, IndexOf(s, ".") + 1, Len(s))

\* a decimal literal: digits, optionally followed by "." and digits
IsDecimal(s) ==
    /\ AllDigits(IntPart(Unsigned(s)))
    /\ IndexOf(s, ".") # 0 => AllDigits(FracPart(Unsigned(s)))

AllZero(s) == \A i \in 1..Len(s) : s[i] = "0"

\* str -> int accepts an integer literal, also one written with a zero fraction
IsIntLiteral(s) == IsDecimal(s) /\ AllZero(FracPart(Unsigned(s)))

StrAsInt(s) == Sign(s) * ParseDigits(IntPart(Unsigned(s)))

\* the fraction of a decimal literal in hundredths (two decimals are kept)
Hundredths(f) ==
    IF Len(f) = 0 THEN 0
    ELSE IF Len(f) = 1 THEN 10 * DigitValue(f[1])
    ELSE 10 * DigitValue(f[1]) + DigitValue(f[2])

StrAsFloat(s) ==
    Sign(s) * (100 * ParseDigits(IntPart(Unsigned(s))) + Hundredths(FracPart(Unsigned(s))))


(***************************************************************************)
(* The classes: a field is (name, annotation, required, gt, lt); gt and lt *)
(* are <<>> where Field() gives no bound.                                  *)
(***************************************************************************)
weight_gt == 0

weight_lt == 120

FieldDecl(name, type) == [name |-> name, type |-> type, required |-> TRUE, gt |-> <<>>, lt |-> <<>>]

User == <<FieldDecl("name", "str"), FieldDecl("age", "int")>>

Patient_field_validator ==
    << FieldDecl("name", "str"),
       FieldDecl("age", "int"),
       [name |-> "weight", type |-> "float", required |-> TRUE,
        gt |-> <<100 * weight_gt>>, lt |-> <<100 * weight_lt>>],
       FieldDecl("linkedin_url", "AnyUrl"),
       FieldDecl("email", "EmailStr"),
       [name |-> "married", type |-> "Optional[bool]", required |-> FALSE, gt |-> <<>>, lt |-> <<>>],
       FieldDecl("allergies", "list[str]"),
       FieldDecl("contactz_details", "dict[str,str]") >>

Patient_computed_filed == <<FieldDecl("weight", "float"), FieldDecl("height", "float")>>

Address == <<FieldDecl("city", "str"), FieldDecl("state", "str"), FieldDecl("pincode", "int")>>

Patient_nested_models ==
    <<FieldDecl("name", "str"), FieldDecl("age", "int"), FieldDecl("address", "Address")>>

Classes == {"User", "Patient_field_validator", "Patient_computed_filed", "Address",
            "Patient_nested_models"}

model_fields(c) ==
    CASE c = "User" -> User
      [] c = "Patient_field_validator" -> Patient_field_validator
      [] c = "Patient_computed_filed" -> Patient_computed_filed
      [] c = "Address" -> Address
      [] c = "Patient_nested_models" -> Patient_nested_models

\* the @computed_field properties of a class, in declaration order
model_computed_fields(c) == IF c = "Patient_computed_filed" THEN <<"BMI">> ELSE <<>>

FieldNames(c) == [i \in 1..Len(model_fields(c)) |-> model_fields(c)[i].name]

\* the default of a field that is not required: married: Optional[bool] = None
DefaultOf(decl) == PyNone

(***************************************************************************)
(* Validation errors: one entry of ValidationError.errors() is             *)
(* (loc, type, msg); an outcome of validating one value is the value       *)
(* (coerced) with no errors, or the errors.                                *)
(***************************************************************************)
Msg(type) ==
    CASE type = "missing" -> "Field required"
      [] type = "string_type" -> "Input should be a valid string"
      [] type = "int_type" -> "Input should be a valid integer"
      [] type = "int_parsing" -> "Input should be a valid integer, unable to parse string as an integer"
      [] type = "int_from_float" -> "Input should be a valid integer, got a number with a fractional part"
      [] type = "float_type" -> "Input should be a valid number"
      [] type = "float_parsing" -> "Input should be a valid number, unable to parse string as a number"
      [] type = "greater_than" -> "Input should be greater than 0"
      [] type = "less_than" -> "Input should be less than 120"
      [] type = "bool_type" -> "Input should be a valid boolean"
      [] type = "bool_parsing" -> "Input should be a valid boolean, unable to interpret input"
      [] type = "url_type" -> "URL input should be a string or URL"
      [] type = "url_parsing" -> "Input should be a valid URL"
      [] type = "value_error" -> "value is not a valid email address"
      [] type = "list_type" -> "Input should be a valid list"
      [] type = "dict_type" -> "Input should be a valid dictionary"
      [] type = "model_type" -> "Input should be a valid dictionary or instance"
      [] OTHER -> "Value error"

Err(loc, type) == [v |-> PyNone, errs |-> <<[loc |-> loc, type |-> type, msg |-> Msg(type)]>>]

Ok(v) == [v |-> v, errs |-> <<>>]

\* name: str
validate_str(v, loc) == IF v.t = "str" THEN Ok(v) ELSE Err(loc, "string_type")

\* age: int, pincode: int (lax mode)
validate_int(v, loc) ==
    CASE v.t = "int" -> Ok(v)
      [] v.t = "bool" -> Ok(PyInt(v.n))
      [] v.t = "float" ->
            IF v.n % 100 = 0 THEN Ok(PyInt(v.n \div 100)) ELSE Err(loc, "int_from_float")
      [] v.t = "str" ->
            IF IsIntLiteral(v.s) THEN Ok(PyInt(StrAsInt(v.s))) ELSE Err(loc, "int_parsing")
      [] OTHER -> Err(loc, "int_type")

\* a float cut down to its whole part
validate_float_truncating(v, loc) ==
    CASE v.t = "float" -> Ok(PyFloat(100 * (v.n \div 100)))
      [] v.t \in {"int", "bool"} -> Ok(PyFloat(100 * v.n))
      [] v.t = "str" ->
            IF IsDecimal(v.s) THEN Ok(PyFloat(StrAsFloat(v.s))) ELSE Err(loc, "float_parsing")
      [] OTHER -> Err(loc, "float_type")

\* weight: float, height: float (lax mode)
validate_float(v, loc) ==
    CASE v.t = "float" -> Ok(v)
      [] v.t \in {"int", "bool"} -> Ok(PyFloat(100 * v.n))
      [] v.t = "str" ->
            IF IsDecimal(v.s) THEN Ok(PyFloat(StrAsFloat(v.s))) ELSE Err(loc, "float_parsing")
      [] OTHER -> Err(loc, "float_type")

\* Field(gt=.., lt=..): both bounds are exclusive
gt_ok(decl, v) == decl.gt = <<>> \/ v.n > decl.gt[1]

\* lt taken as le: the bound itself passes
lt_ok_inclusive(decl, v) == decl.lt = <<>> \/ v.n <= decl.lt[1]

lt_ok(decl, v) == decl.lt = <<>> \/ v.n < decl.lt[1]

apply_constraints(decl, r, loc) ==
    IF r.errs # <<>> THEN r
    ELSE IF ~gt_ok(decl, r.v) THEN Err(loc, "greater_than")
    ELSE IF ~lt_ok(decl, r.v) THEN Err(loc, "less_than")
    ELSE r

TrueStrings == {<<"1">>, <<"o", "n">>, <<"t">>, <<"t", "r", "u", "e">>, <<"y">>, <<"y", "e", "s">>}

FalseStrings == {<<"0">>, <<"o", "f", "f">>, <<"f">>, <<"f", "a", "l", "s", "e">>, <<"n">>, <<"n", "o">>}

validate_bool(v, loc) ==
    CASE v.t = "bool" -> Ok(v)
      [] v.t = "int" -> IF v.n \in {0, 1} THEN Ok(PyBool(v.n = 1)) ELSE Err(loc, "bool_parsing")
      [] v.t = "float" -> IF v.n \in {0, 100} THEN Ok(PyBool(v.n = 100)) ELSE Err(loc, "bool_parsing")
      [] v.t = "str" ->
            IF v.s \in TrueStrings THEN Ok(PyBool(TRUE))
            ELSE IF v.s \in FalseStrings THEN Ok(PyBool(FALSE))
            ELSE Err(loc, "bool_parsing")
      [] OTHER -> Err(loc, "bool_type")

\* married: Optional[bool]
validate_optional_bool(v, loc) == IF v.t = "none" THEN Ok(v) ELSE validate_bool(v, loc)

Letters == {"a", "b", "c", "d", "e", "f", "g", "h", "i", "j", "k", "l", "m", "n", "o", "p", "q",
            "r", "s", "t", "u", "v", "w", "x", "y", "z"}

SpecialSchemes == {<<"h", "t", "t", "p">>, <<"h", "t", "t", "p", "s">>, <<"f", "t", "p">>,
                   <<"w", "s">>, <<"w", "s", "s">>}

Scheme(s) == SubSeq(s, 1, IndexOf(s, ":") - 1)

AfterScheme(s) == SubSeq(s, IndexOf(s, ":") + 1, Len(s))

HasScheme(s) == IndexOf(s, ":") > 1 /\ \A i \in 1..Len(Scheme(s)) : Scheme(s)[i] \in Letters

\* what follows "//": the host, then the path from its first "/"
Authority(s) == SubSeq(AfterScheme(s), 3, Len(AfterScheme(s)))

HostOf(s) ==
    IF IndexOf(Authority(s), "/") = 0 THEN Authority(s)
    ELSE SubSeq(Authority(s), 1, IndexOf(Authority(s), "/") - 1)

IsUrl(s) ==
    /\ HasScheme(s)
    /\ Scheme(s) \in SpecialSchemes =>
          /\ Len(AfterScheme(s)) >= 2
          /\ SubSeq(AfterScheme(s), 1, 2) = <<"/", "/">>
          /\ HostOf(s) # <<>>

\* the URL as parsed: a special scheme with an empty path gets the path "/"
NormalizeUrl(s) ==
    IF Scheme(s) \in SpecialSchemes /\ IndexOf(Authority(s), "/") = 0 THEN Append(s, "/") ELSE s

\* linkedin_url: AnyUrl
validate_url(v, loc) ==
    CASE v.t = "url" -> Ok(v)
      [] v.t = "str" -> IF IsUrl(v.s) THEN Ok(Url(NormalizeUrl(v.s))) ELSE Err(loc, "url_parsing")
      [] OTHER -> Err(loc, "url_type")

LocalPart(s) == SubSeq(s, 1, IndexOf(s, "@") - 1)

DomainPart(s) == SubSeq(s, IndexOf(s, "@") + 1, Len(s))

\* one "@", a local part, and a domain of at least two non-empty labels
IsEmail(s) ==
    /\ Count(s, "@") = 1
    /\ LocalPart(s) # <<>>
    /\ LET d == DomainPart(s)
       IN  /\ Count(d, ".") >= 1
           /\ d[1] # "."
           /\ d[Len(d)] # "."
           /\ \A i \in 1..(Len(d) - 1) : ~(d[i] = "." /\ d[i + 1] = ".")

s_gmail_com == <<"@", "g", "m", "a", "i", "l", ".", "c", "o", "m">>

EndsWith(s, suffix) ==
    Len(s) >= Len(suffix) /\ SubSeq(s, Len(s) - Len(suffix) + 1, Len(s)) = suffix

\* EmailStr with a @field_validator('email') that raises ValueError for an
\* address outside gmail.com: what the class would be with such a rule
validate_email_gmail_only(v, loc) ==
    IF v.t # "str" THEN Err(loc, "string_type")
    ELSE IF ~IsEmail(v.s) THEN Err(loc, "value_error")
    ELSE IF ~EndsWith(v.s, s_gmail_com)
    THEN [v |-> PyNone, errs |-> <<[loc |-> loc, type |-> "value_error", msg |-> "Value error"]>>]
    ELSE Ok(v)

\* email: EmailStr (no field_validator is registered on it)
validate_email(v, loc) ==
    IF v.t # "str" THEN Err(loc, "string_type")
    ELSE IF IsEmail(v.s) THEN Ok(v)
    ELSE Err(loc, "value_error")

(***************************************************************************)
(* Containers and models.  Every field is validated, in declaration        *)
(* order, and the errors of all of them are collected: ValidationError     *)
(* carries one entry per failing location.                                  *)
(***************************************************************************)
RECURSIVE validate_items(_, _, _)
\* allergies: list[str], item by item; the location of an item is its index
validate_items(items, loc, i) ==
    IF i > Len(items) THEN [v |-> <<>>, errs |-> <<>>]
    ELSE LET head == validate_str(items[i], Append(loc, ToString(i - 1)))
             rest == validate_items(items, loc, i + 1)
         IN  [v |-> <<head.v>> \o rest.v, errs |-> head.errs \o rest.errs]

validate_list_str(v, loc) ==
    IF v.t # "list" THEN Err(loc, "list_type")
    ELSE LET r == validate_items(v.items, loc, 1)
         IN  IF r.errs = <<>> THEN Ok(PyList(r.v)) ELSE [v |-> PyNone, errs |-> r.errs]

RECURSIVE validate_values(_, _, _)
\* contactz_details: dict[str, str], value by value; the location is the key
validate_values(pairs, loc, i) ==
    IF i > Len(pairs) THEN [v |-> <<>>, errs |-> <<>>]
    ELSE LET head == validate_str(pairs[i].v, Append(loc, pairs[i].k))
             rest == validate_values(pairs, loc, i + 1)
         IN  [v |-> <<Pair(pairs[i].k, head.v)>> \o rest.v, errs |-> head.errs \o rest.errs]

validate_dict_str_str(v, loc) ==
    IF v.t # "dict" THEN Err(loc, "dict_type")
    ELSE LET r == validate_values(v.pairs, loc, 1)
         IN  IF r.errs = <<>> THEN Ok(PyDict(r.v)) ELSE [v |-> PyNone, errs |-> r.errs]

RECURSIVE validate_fields(_, _, _, _)
RECURSIVE validate_field(_, _, _)

\* address: Address.  An instance of the class is taken as it is; a dict is
\* validated as the nested model's input; anything else is refused.
validate_model(c, v, loc) ==
    CASE v.t = "model" /\ v.cls = c -> Ok(v)
      [] v.t = "dict" ->
            LET r == validate_fields(c, v.pairs, loc, 1)
            IN  IF r.errs = <<>> THEN Ok(Model(c, r.v)) ELSE [v |-> PyNone, errs |-> r.errs]
      [] OTHER -> Err(loc, "model_type")

\* one value against the annotation of its field, then the field's bounds
validate_field(decl, v, loc) ==
    apply_constraints(decl,
        CASE decl.type = "str" -> validate_str(v, loc)
          [] decl.type = "int" -> validate_int(v, loc)
          [] decl.type = "float" -> validate_float(v, loc)
          [] decl.type = "Optional[bool]" -> validate_optional_bool(v, loc)
          [] decl.type = "AnyUrl" -> validate_url(v, loc)
          [] decl.type = "EmailStr" -> validate_email(v, loc)
          [] decl.type = "list[str]" -> validate_list_str(v, loc)
          [] decl.type = "dict[str,str]" -> validate_dict_str_str(v, loc)
          [] OTHER -> validate_model(decl.type, v, loc),
        loc)

\* every field taken as optional: an absent key resolves to the default
field_outcome_lenient(decl, pairs, loc) ==
    IF Has(pairs, decl.name) THEN validate_field(decl, Get(pairs, decl.name), Append(loc, decl.name))
    ELSE Ok(DefaultOf(decl))

\* the field named by decl, from the input: its value validated, its
\* default when the key is absent, or the error "missing"
field_outcome(decl, pairs, loc) ==
    IF Has(pairs, decl.name) THEN validate_field(decl, Get(pairs, decl.name), Append(loc, decl.name))
    ELSE IF decl.required THEN Err(Append(loc, decl.name), "missing")
    ELSE Ok(DefaultOf(decl))

RECURSIVE validate_fields_fail_fast(_, _, _, _)
\* validation that stops at the first failing field
validate_fields_fail_fast(c, pairs, loc, i) ==
    IF i > Len(model_fields(c)) THEN [v |-> <<>>, errs |-> <<>>]
    ELSE LET decl == model_fields(c)[i]
             head == field_outcome(decl, pairs, loc)
             rest == validate_fields_fail_fast(c, pairs, loc, i + 1)
         IN  IF head.errs # <<>> THEN [v |-> <<>>, errs |-> head.errs]
             ELSE [v |-> <<Pair(decl.name, head.v)>> \o rest.v, errs |-> rest.errs]

\* the fields of class c from the i-th on; keys of the input that name no
\* field are never looked at (extra='ignore')
validate_fields(c, pairs, loc, i) ==
    IF i > Len(model_fields(c)) THEN [v |-> <<>>, errs |-> <<>>]
    ELSE LET decl == model_fields(c)[i]
             head == field_outcome(decl, pairs, loc)
             rest == validate_fields(c, pairs, loc, i + 1)
         IN  [v |-> <<Pair(decl.name, head.v)>> \o rest.v, errs |-> head.errs \o rest.errs]

\* errors swallowed: an instance is returned whatever validation found
ModelInit_swallowing(c, kwargs) ==
    [ok |-> TRUE, inst |-> Model(c, validate_fields(c, kwargs, <<>>, 1).v), errors |-> <<>>]

\* extra='allow': the keys that name no field are kept on the instance
ModelInit_extra_allow(c, kwargs) ==
    LET r == validate_fields(c, kwargs, <<>>, 1)
        extra == SelectSeq(kwargs, LAMBDA p : \A i \in 1..Len(model_fields(c)) :
                                                 model_fields(c)[i].name # p.k)
    IN  IF r.errs = <<>>
        THEN [ok |-> TRUE, inst |-> Model(c, r.v \o extra), errors |-> <<>>]
        ELSE [ok |-> FALSE, inst |-> PyNone, errors |-> r.errs]

\* BaseModel.__init__(**kwargs): the instance, or ValidationError and none
ModelInit(c, kwargs) ==
    LET r == validate_fields(c, kwargs, <<>>, 1)
    IN  IF r.errs = <<>>
        THEN [ok |-> TRUE, inst |-> Model(c, r.v), errors |-> <<>>]
        ELSE [ok |-> FALSE, inst |-> PyNone, errors |-> r.errs]

(***************************************************************************)
(* Attribute access, the computed field and model_dump                     *)
(***************************************************************************)
\* a number of the instance in hundredths, whatever its Python type
Number(v) == IF v.t = "float" THEN v.n ELSE 100 * v.n

\* a / b for b > 0 to the nearest integer: round(x, 2) of the quotient in
\* hundredths.  Python rounds the binary float, so an exact tie of a / b goes
\* the way of the float's error; it is written here as a tie to the even
\* integer, and none of the inputs below reaches a tie.
RoundDiv(a, b) ==
    LET q == a \div b
        r == a % b
    IN  IF 2 * r < b THEN q
        ELSE IF 2 * r > b THEN q + 1
        ELSE IF q % 2 = 0 THEN q ELSE q + 1

\* self.height ** 2 is zero: the division raises ZeroDivisionError
BMI_raises(m) == Number(Get(m.pairs, "height")) = 0

\* round(self.weight / (self.height ** 2), 2), in hundredths:
\* (w/100) / (h/100)^2 * 100 = 10000 w / h^2
BMI(m) ==
    LET w == Number(Get(m.pairs, "weight"))
        h == Number(Get(m.pairs, "height"))
    IN  PyFloat(RoundDiv(10000 * w, h * h))

computed_raises(m, name) == name = "BMI" /\ BMI_raises(m)

computed_value(m, name) == BMI(m)

SeqToSet(q) == {q[i] : i \in 1..Len(q)}

\* getattr(instance, name): a field, a computed property, or AttributeError
GetAttrOutcome(m, name) ==
    IF Has(m.pairs, name) THEN [exc |-> "", v |-> Get(m.pairs, name)]
    ELSE IF name \in SeqToSet(model_computed_fields(m.cls))
    THEN IF computed_raises(m, name) THEN [exc |-> "ZeroDivisionError", v |-> PyNone]
         ELSE [exc |-> "", v |-> computed_value(m, name)]
    ELSE [exc |-> "AttributeError", v |-> PyNone]

\* frozen=True: every assignment raises and changes nothing
SetAttrOutcome_frozen(m, name, v) == [exc |-> "ValidationError", inst |-> m]

\* setattr(instance, name, value): the classes are not frozen and do not
\* validate assignments, so a field takes any value; a property without a
\* setter raises AttributeError, a name that is no field raises ValueError
SetAttrOutcome(m, name, v) ==
    IF Has(m.pairs, name) THEN [exc |-> "", inst |-> Model(m.cls, Put(m.pairs, name, v))]
    ELSE IF name \in SeqToSet(model_computed_fields(m.cls))
    THEN [exc |-> "AttributeError", inst |-> m]
    ELSE [exc |-> "ValueError", inst |-> m]

RECURSIVE dump_value(_)
RECURSIVE dump_pairs(_, _)
RECURSIVE dump_computed(_, _)

dump_pairs(pairs, i) ==
    IF i > Len(pairs) THEN <<>>
    ELSE <<Pair(pairs[i].k, dump_value(pairs[i].v))>> \o dump_pairs(pairs, i + 1)

dump_computed(m, i) ==
    IF i > Len(model_computed_fields(m.cls)) THEN <<>>
    ELSE <<Pair(model_computed_fields(m.cls)[i], computed_value(m, model_computed_fields(m.cls)[i]))>>
         \o dump_computed(m, i + 1)

\* only the outermost model expanded: a nested instance is left as it is
dump_value_shallow(v) ==
    IF v.t = "model" THEN PyDict(v.pairs \o dump_computed(v, 1)) ELSE v

\* a model becomes the dict of its fields, then its computed fields; lists
\* and dicts are dumped item by item; any other value is kept
dump_value(v) ==
    CASE v.t = "model" -> PyDict(dump_pairs(v.pairs, 1) \o dump_computed(v, 1))
      [] v.t = "list" -> PyList([i \in 1..Len(v.items) |-> dump_value(v.items[i])])
      [] v.t = "dict" -> PyDict(dump_pairs(v.pairs, 1))
      [] OTHER -> v

\* instance.model_dump(): the computed properties are evaluated as the dict
\* is built, and what a property raises ends the export
model_dump(m) ==
    IF \E i \in 1..Len(model_computed_fields(m.cls)) :
            computed_raises(m, model_computed_fields(m.cls)[i])
    THEN [exc |-> "ZeroDivisionError", v |-> PyNone]
    ELSE [exc |-> "", v |-> dump_value(m)]

(***************************************************************************)
(* The inputs.  The str literals of the scripts, then the keyword          *)
(* arguments each script passes.                                           *)
(***************************************************************************)
s_pratik == <<"p", "r", "a", "t", "i", "k">>

s_url == <<"h", "t", "t", "p", "s", ":", "/", "/", "c", "h", "a", "t", "g", "p", "t", ".",
    "c", "o", "m", "/", "c", "/", "6", "9", "2", "d", "1", "8", "b", "8", "-", "a", "5",
    "e", "0", "-", "8", "3", "2", "0", "-", "9", "b", "7", "9", "-", "b", "6", "c", "c",
    "4", "e", "8", "c", "f", "5", "e", "1">>

s_email == <<"p", "r", "a", "t", "i", "k", "@", "g", "m", "a", "i", "l", ".", "c", "o",
    "m">>

s_phone == <<"8", "7", "8", "8", "4", "1", "7", "3", "1", "3">>

s_Pratik == <<"P", "r", "a", "t", "i", "k">>

s_Sangli == <<"S", "a", "n", "g", "l", "i">>

s_Maharashtra == <<"M", "a", "h", "a", "r", "a", "s", "h", "t", "r", "a">>

\* serialization.py: User(name="Pratik", age=19)
u == <<Pair("name", PyStr(s_Pratik)), Pair("age", PyInt(19))>>

\* field_validator.py: patient_info
patient_info ==
    << Pair("name", PyStr(s_pratik)),
       Pair("age", PyInt(19)),
       Pair("weight", PyFloat(4534)),
       Pair("linkedin_url", PyStr(s_url)),
       Pair("email", PyStr(s_email)),
       Pair("married", PyBool(TRUE)),
       Pair("allergies", PyList(<<PyStr(s_pratik)>>)),
       Pair("contactz_details", PyDict(<<Pair("phone", PyStr(s_phone))>>)) >>

\* computed_filed.py: Patient(weight=70, height=1.75)
person == <<Pair("weight", PyInt(70)), Pair("height", PyFloat(175))>>

\* nested_models.py: Address(city="Sangli", state="Maharashtra", pincode=416312)
address_kwargs ==
    <<Pair("city", PyStr(s_Sangli)), Pair("state", PyStr(s_Maharashtra)),
      Pair("pincode", PyInt(416312))>>

\* nested_models.py: Patient(name="Pratik", age=19, address=Address(...)); the
\* Address is instantiated first and the instance is the argument
patient1 ==
    <<Pair("name", PyStr(s_Pratik)), Pair("age", PyInt(19)),
      Pair("address", ModelInit("Address", address_kwargs).inst)>>

Baseline(c) ==
    CASE c = "User" -> u
      [] c = "Patient_field_validator" -> patient_info
      [] c = "Patient_computed_filed" -> person
      [] c = "Address" -> address_kwargs
      [] c = "Patient_nested_models" -> patient1

(***************************************************************************)
(* Other inputs: each keyword of a script's call may be left out or take   *)
(* another value, and a keyword that names no field may be added; at most  *)
(* MaxChanged keywords of one call differ from the script's.               *)
(***************************************************************************)
MaxChanged == 2

s_x_yahoo == <<"x", "@", "y", "a", "h", "o", "o", ".", "c", "o", "m">>

s_x_gmail == <<"x", "@", "g", "m", "a", "i", "l", ".", "c", "o", "m">>

s_19 == <<"1", "9">>

s_416312 == <<"4", "1", "6", "3", "1", "2">>

s_url_bare == <<"h", "t", "t", "p", "s", ":", "/", "/", "c", "h", "a", "t", "g", "p", "t",
    ".", "c", "o", "m">>

s_no_scheme == <<"c", "h", "a", "t", "g", "p", "t", ".", "c", "o", "m">>

s_no_at == <<"p", "r", "a", "t", "i", "k", ".", "g", "m", "a", "i", "l", ".", "c", "o",
    "m">>

s_abc == <<"a", "b", "c">>

s_45_34 == <<"4", "5", ".", "3", "4">>

s_P == <<"P">>

\* no value: the keyword is left out of the call
Absent == [t |-> "absent", s |-> <<>>, n |-> 0]

ExtraKeys(c) == IF c = "Patient_computed_filed" THEN <<"nickname", "BMI">> ELSE <<"nickname">>

\* Address(...) inputs given as a dict in place of the instance
AddressDicts ==
    { PyDict(address_kwargs),
      PyDict(Put(address_kwargs, "pincode", PyStr(s_416312))),
      PyDict(Put(address_kwargs, "pincode", PyStr(s_abc))),
      PyDict(Append(address_kwargs, Pair("nickname", PyStr(s_P)))),
      PyDict(SubSeq(address_kwargs, 1, 2)),
      PyDict(<<Pair("city", PyInt(1)), Pair("state", PyStr(s_Maharashtra))>>) }

Alternatives(c, k) ==
    CASE k \in {"nickname", "BMI"} -> {PyStr(s_P), PyFloat(100)}
      [] k \in {"name", "city", "state"} -> {Absent, PyInt(19), PyStr(s_P)}
      [] k = "age" -> {Absent, PyStr(s_19), PyStr(s_abc), PyFloat(1950), PyFloat(2000)}
      [] k = "pincode" -> {Absent, PyStr(s_416312), PyStr(s_abc), PyNone}
      [] k = "weight" /\ c = "Patient_field_validator" ->
            {Absent, PyFloat(0), PyFloat(1), PyFloat(11990), PyFloat(12000), PyFloat(-500),
             PyInt(120), PyInt(70), PyStr(s_45_34), PyStr(s_abc)}
      [] k = "weight" -> {Absent, PyFloat(4534), PyInt(0), PyStr(s_abc)}
      [] k = "height" -> {Absent, PyFloat(0), PyFloat(160), PyInt(1), PyStr(s_abc)}
      [] k = "linkedin_url" -> {Absent, PyStr(s_url_bare), PyStr(s_no_scheme), PyInt(19)}
      [] k = "email" -> {Absent, PyStr(s_x_yahoo), PyStr(s_x_gmail), PyStr(s_no_at), PyInt(19)}
      [] k = "married" -> {Absent, PyNone, PyBool(FALSE), PyInt(1), PyStr(s_abc)}
      [] k = "allergies" -> {Absent, PyList(<<>>), PyList(<<PyStr(s_P), PyInt(1)>>), PyStr(s_P)}
      [] k = "contactz_details" ->
            {Absent, PyDict(<<Pair("phone", PyInt(19))>>), PyList(<<>>)}
      [] k = "address" ->
            AddressDicts \cup {Absent, PyInt(19), ModelInit("User", u).inst}

\* the keywords a call may give: the script's, then the undeclared ones
CallKeys(c) == [i \in 1..Len(Baseline(c)) |-> Baseline(c)[i].k] \o ExtraKeys(c)

Given(c, k) == IF Has(Baseline(c), k) THEN Get(Baseline(c), k) ELSE Absent

Arg(k, v) == IF v = Absent THEN <<>> ELSE <<Pair(k, v)>>

RECURSIVE Calls(_, _, _)
\* the keyword arguments from the i-th keyword on, with at most budget changes
Calls(c, i, budget) ==
    IF i > Len(CallKeys(c)) THEN {<<>>}
    ELSE LET k == CallKeys(c)[i]
         IN  {Arg(k, Given(c, k)) \o rest : rest \in Calls(c, i + 1, budget)}
             \cup (IF budget = 0 THEN {}
                   ELSE {Arg(k, v) \o rest :
                            v \in Alternatives(c, k) \ {Given(c, k)},
                            rest \in Calls(c, i + 1, budget - 1)})

Inputs(c) == Calls(c, 1, MaxChanged)

\* values a script may assign to an attribute of the instance
Assignable(c) ==
    CASE c = "Patient_field_validator" -> {<<"weight", PyFloat(50000)>>, <<"nickname", PyStr(s_P)>>}
      [] c = "Patient_computed_filed" -> {<<"height", PyFloat(0)>>, <<"BMI", PyFloat(100)>>}
      [] c = "User" -> {<<"age", PyStr(s_abc)>>, <<"name", PyStr(s_P)>>}
      [] c = "Address" -> {<<"pincode", PyInt(1)>>}
      [] c = "Patient_nested_models" -> {<<"address", PyNone>>}
      [] OTHER -> {}

AttrNames(c) == IF c \in Classes THEN SeqToSet(FieldNames(c)) \cup SeqToSet(ExtraKeys(c)) ELSE {}

(***************************************************************************)
(* The state machine                                                       *)
(***************************************************************************)
\* the arguments of the last attribute access: the name, the value assigned
NoArgs == [name |-> "", v |-> PyNone]

NoResult == [ok |-> FALSE, inst |-> PyNone, errors |-> <<>>]

Init ==
    /\ cls = "" /\ raw = <<>> /\ result = NoResult /\ inst = PyNone
    /\ out = PyNone /\ got = PyNone /\ exc = "" /\ op = "start" /\ args = NoArgs

\* instance = Class(**kwargs)
Construct(c, kwargs) ==
    /\ op = "start"
    /\ cls' = c
    /\ raw' = kwargs
    /\ result' = ModelInit(c, kwargs)
    /\ inst' = result'.inst
    /\ exc' = IF result'.ok THEN "" ELSE "ValidationError"
    /\ out' = PyNone /\ got' = PyNone
    /\ op' = "construct"
    /\ args' = NoArgs

\* print(instance.name)
GetAttr(name) ==
    /\ inst.t = "model"
    /\ got' = GetAttrOutcome(inst, name).v
    /\ exc' = GetAttrOutcome(inst, name).exc
    /\ out' = PyNone
    /\ op' = "getattr"
    /\ args' = [name |-> name, v |-> PyNone]
    /\ UNCHANGED <<cls, raw, result, inst>>

\* instance.name = value
SetAttr(name, v) ==
    /\ inst.t = "model"
    /\ inst' = SetAttrOutcome(inst, name, v).inst
    /\ exc' = SetAttrOutcome(inst, name, v).exc
    /\ out' = PyNone /\ got' = PyNone
    /\ op' = "setattr"
    /\ args' = [name |-> name, v |-> v]
    /\ UNCHANGED <<cls, raw, result>>

\* print(instance.model_dump())
ModelDump ==
    /\ inst.t = "model"
    /\ out' = model_dump(inst).v
    /\ exc' = model_dump(inst).exc
    /\ got' = PyNone
    /\ op' = "model_dump"
    /\ args' = NoArgs
    /\ UNCHANGED <<cls, raw, result, inst>>

Next ==
    \/ \E c \in Classes : \E kwargs \in Inputs(c) : Construct(c, kwargs)
    \/ \E name \in AttrNames(cls) : GetAttr(name)
    \/ \E a \in Assignable(cls) : SetAttr(a[1], a[2])
    \/ ModelDump

Spec == Init /\ [][Next]_vars

(***************************************************************************)
(* What the properties speak of                                            *)
(***************************************************************************)
Errors == SeqToSet(result.errors)

\* the field of the class an error lies in
ErrorField(e) == e.loc[1]

\* the kinds of failure the specification names, for an error of the library
ErrorClass(e) ==
    CASE e.type = "missing" -> "MissingFieldError"
      [] e.type \in {"greater_than", "less_than", "url_parsing"} -> "ConstraintError"
      [] e.type = "value_error" /\ e.msg = "value is not a valid email address" -> "ConstraintError"
      [] e.type \in {"string_type", "int_type", "int_parsing", "int_from_float", "float_type",
                     "float_parsing", "bool_type", "bool_parsing", "url_type", "list_type",
                     "dict_type", "model_type"} -> "TypeError"
      [] OTHER -> "CustomValidationError"

Constructed == op = "construct"

\* the instance is as the constructor returned it: nothing was assigned
Untouched == inst.t = "model" /\ inst = result.inst

Dumped == op = "model_dump" /\ exc = "" /\ Untouched

IndexOfField(c, name) == CHOOSE i \in 1..Len(model_fields(c)) : model_fields(c)[i].name = name

KeySeq(pairs) == [i \in 1..Len(pairs) |-> pairs[i].k]

RECURSIVE Conforms(_)
\* a value is of the declared type of a field
HasType(type, v) ==
    CASE type = "str" -> v.t = "str"
      [] type = "int" -> v.t = "int"
      [] type = "float" -> v.t = "float"
      [] type = "Optional[bool]" -> v.t \in {"bool", "none"}
      [] type = "AnyUrl" -> v.t = "url"
      [] type = "EmailStr" -> v.t = "str" /\ Count(v.s, "@") = 1
      [] type = "list[str]" -> v.t = "list" /\ \A i \in 1..Len(v.items) : v.items[i].t = "str"
      [] type = "dict[str,str]" -> v.t = "dict" /\ \A i \in 1..Len(v.pairs) : v.pairs[i].v.t = "str"
      [] OTHER -> v.t = "model" /\ v.cls = type /\ Conforms(v)

\* an instance holds exactly the declared fields, in order, each of its
\* declared type and strictly within its bounds
Conforms(m) ==
    /\ KeySeq(m.pairs) = FieldNames(m.cls)
    /\ \A i \in 1..Len(m.pairs) :
          /\ HasType(model_fields(m.cls)[i].type, m.pairs[i].v)
          /\ (m.cls = "Patient_field_validator" /\ m.pairs[i].k = "weight") =>
                (m.pairs[i].v.n > 100 * weight_gt /\ m.pairs[i].v.n < 100 * weight_lt)

\* C1: a construction is all or nothing: it returns an instance that holds
\* every declared field, each of its declared type and within its bounds, and
\* reports no error; or it raises ValidationError with at least one error and
\* there is no instance, not even a partial one.
C1_AllOrNothing ==
    Constructed =>
        \/ /\ result.ok /\ exc = "" /\ result.errors = <<>>
           /\ inst = result.inst /\ inst.t = "model" /\ inst.cls = cls
           /\ Conforms(inst)
        \/ /\ ~result.ok /\ exc = "ValidationError" /\ result.errors # <<>>
           /\ inst = PyNone /\ result.inst = PyNone

\* a construction refused for the weight 120.0 alone: no instance exists
C1_Witness ==
    /\ Constructed /\ cls = "Patient_field_validator" /\ ~result.ok
    /\ Has(raw, "weight") /\ Get(raw, "weight") = PyFloat(12000)
    /\ Len(result.errors) = 1

\* Python's ==: numbers compare by value across int, float and bool, other
\* values by type and content
PyEq(a, b) ==
    IF a.t \in {"int", "float", "bool"} /\ b.t \in {"int", "float", "bool"}
    THEN Number(a) = Number(b)
    ELSE a = b

Scalar(v) == v.t \in {"str", "int", "float", "bool", "none", "url"}

IsNumber(v) == v.t \in {"int", "float"} \/ (v.t = "str" /\ IsDecimal(v.s))

Supplied(v) == IF v.t = "str" THEN StrAsFloat(v.s) ELSE Number(v)

OthersAsInScript(c, name) ==
    \A i \in 1..Len(Baseline(c)) :
        Baseline(c)[i].k # name =>
            Has(raw, Baseline(c)[i].k) /\ Get(raw, Baseline(c)[i].k) = Baseline(c)[i].v

\* C3: weight: float = Field(gt=0, lt=120).  A weight at or below 0, or at or
\* above 120, makes the construction fail with a constraint error on weight;
\* a weight strictly between is never refused, and the construction succeeds
\* with it when the other arguments are the script's.
C3_WeightBounds ==
    (Constructed /\ cls = "Patient_field_validator" /\ Has(raw, "weight")
        /\ IsNumber(Get(raw, "weight"))) =>
        LET w == Supplied(Get(raw, "weight"))
        IN  IF w <= 100 * weight_gt \/ w >= 100 * weight_lt
            THEN /\ ~result.ok
                 /\ \E e \in Errors : e.loc = <<"weight">> /\ ErrorClass(e) = "ConstraintError"
            ELSE /\ \A e \in Errors : ErrorField(e) # "weight"
                 /\ OthersAsInScript(cls, "weight") =>
                        result.ok /\ Get(inst.pairs, "weight") = PyFloat(w)

\* the weight 119.9 is accepted
C3_Witness ==
    /\ Constructed /\ cls = "Patient_field_validator" /\ result.ok
    /\ Get(raw, "weight") = PyFloat(11990)
    /\ Get(inst.pairs, "weight") = PyFloat(11990)

\* C4: a required field that the input lacks makes the construction fail
\* with the error "missing" at that field (within a nested dict too); the
\* optional field married never does, and is None in the instance.
C4_MissingField ==
    Constructed =>
        /\ \A i \in 1..Len(model_fields(cls)) :
              LET decl == model_fields(cls)[i]
              IN  ~Has(raw, decl.name) =>
                    IF decl.required
                    THEN /\ ~result.ok
                         /\ \E e \in Errors :
                               e.loc = <<decl.name>> /\ ErrorClass(e) = "MissingFieldError"
                    ELSE /\ \A e \in Errors : ErrorField(e) # decl.name
                         /\ result.ok => Get(inst.pairs, decl.name) = PyNone
        /\ (cls = "Patient_nested_models" /\ Has(raw, "address")
              /\ Get(raw, "address").t = "dict") =>
              \A j \in 1..Len(Address) :
                  ~Has(Get(raw, "address").pairs, Address[j].name) =>
                      /\ ~result.ok
                      /\ \E e \in Errors :
                            e.loc = <<"address", Address[j].name>> /\ e.type = "missing"

\* name and married are both left out: only name is reported
C4_Witness ==
    /\ Constructed /\ cls = "Patient_field_validator"
    /\ ~Has(raw, "name") /\ ~Has(raw, "married")
    /\ result.errors = <<[loc |-> <<"name">>, type |-> "missing", msg |-> "Field required"]>>

Failing(i) == field_outcome(model_fields(cls)[i], raw, <<>>).errs # <<>>

FirstFailing ==
    CHOOSE i \in 1..Len(model_fields(cls)) : Failing(i) /\ \A j \in 1..(i - 1) : ~Failing(j)

\* C5 as stated: a failed construction reports the first failing field in
\* declaration order and no field after it
C5_FailFast ==
    (Constructed /\ ~result.ok) =>
        \A e \in Errors : ErrorField(e) = model_fields(cls)[FirstFailing].name

\* C5, amended: validation does not stop at the first failing field.  Every
\* declared field is validated; the construction fails exactly when some
\* field fails; the errors name every failing field and no other, in
\* declaration order, so the first error is that of the first failing field.
C5_CollectsAll ==
    Constructed =>
        /\ result.ok <=> \A i \in 1..Len(model_fields(cls)) : ~Failing(i)
        /\ \A i \in 1..Len(model_fields(cls)) :
              Failing(i) <=> \E e \in Errors : ErrorField(e) = model_fields(cls)[i].name
        /\ \A a, b \in 1..Len(result.errors) :
              a < b => IndexOfField(cls, ErrorField(result.errors[a]))
                          <= IndexOfField(cls, ErrorField(result.errors[b]))
        /\ ~result.ok => ErrorField(result.errors[1]) = model_fields(cls)[FirstFailing].name

\* an unparsable age and a malformed email are both reported, in that order
C5_Witness ==
    /\ Constructed /\ cls = "Patient_field_validator"
    /\ Len(result.errors) = 2
    /\ result.errors[1].loc = <<"age">> /\ result.errors[1].type = "int_parsing"
    /\ result.errors[2].loc = <<"email">> /\ result.errors[2].type = "value_error"

\* C6 as stated: an email that does not end in @gmail.com is refused
C6_GmailOnly ==
    (Constructed /\ cls = "Patient_field_validator" /\ Has(raw, "email")
        /\ Get(raw, "email").t = "str" /\ ~EndsWith(Get(raw, "email").s, s_gmail_com)) =>
        ~result.ok

\* C6, amended: the class registers no custom rule on email.  No failure is
\* a custom validation error; an email is checked against the address form
\* of EmailStr alone, so an address of any domain is accepted as given and
\* only a str that is no address is refused, with the error of the form.
C6_EmailFormOnly ==
    (Constructed /\ cls = "Patient_field_validator") =>
        /\ \A e \in Errors : ErrorClass(e) # "CustomValidationError"
        /\ (Has(raw, "email") /\ Get(raw, "email").t = "str") =>
              IF IsEmail(Get(raw, "email").s)
              THEN /\ \A e \in Errors : ErrorField(e) # "email"
                   /\ result.ok => Get(inst.pairs, "email") = Get(raw, "email")
                   /\ OthersAsInScript(cls, "email") => result.ok
              ELSE /\ ~result.ok
                   /\ \E e \in Errors : e.loc = <<"email">> /\ ErrorClass(e) = "ConstraintError"

\* x@yahoo.com is accepted
C6_Witness ==
    /\ Constructed /\ cls = "Patient_field_validator" /\ result.ok
    /\ Get(raw, "email") = PyStr(s_x_yahoo)
    /\ Get(inst.pairs, "email") = PyStr(s_x_yahoo)

\* b is a / c to the nearest integer, for c > 0
Nearest(b, a, c) == 2 * (b * c - a) <= c /\ 2 * (a - b * c) <= c

BMIOfInstance ==
    LET w == Get(inst.pairs, "weight").n
        h == Get(inst.pairs, "height").n
        b == Get(out.pairs, "BMI")
    IN  b.t = "float" /\ Nearest(b.n, 10000 * w, h * h)

\* C7: the export of every constructed Patient holds BMI, the value
\* round(weight / height**2, 2) of the validated weight and height, after the
\* declared fields and whatever the input gave under the key BMI.
C7_BMIExported ==
    (op = "model_dump" /\ cls = "Patient_computed_filed" /\ Untouched) =>
        /\ exc = ""
        /\ KeySeq(out.pairs) = <<"weight", "height", "BMI">>
        /\ BMIOfInstance

\* C7 where the height is not zero: there the export holds BMI as stated
C7_BMIExportedNonZeroHeight ==
    (op = "model_dump" /\ cls = "Patient_computed_filed" /\ Untouched
        /\ Get(inst.pairs, "height").n # 0) =>
        /\ exc = ""
        /\ KeySeq(out.pairs) = <<"weight", "height", "BMI">>
        /\ BMIOfInstance

\* weight=70, height=1.75 gives BMI 22.86, whatever BMI the input names
C7_Example ==
    /\ op = "model_dump" /\ cls = "Patient_computed_filed" /\ Untouched
    /\ Has(raw, "BMI")
    /\ Get(inst.pairs, "weight") = PyFloat(7000) /\ Get(inst.pairs, "height") = PyFloat(175)
    /\ Get(out.pairs, "BMI") = PyFloat(2286)

IsNested == cls = "Patient_nested_models"

\* C8 as stated: the exported address is a plain dict of exactly city,
\* state and pincode, holding the values that were supplied
C8_NestedSupplied ==
    (Dumped /\ IsNested) =>
        LET a == Get(out.pairs, "address")
            given == Get(raw, "address").pairs
        IN  /\ a.t = "dict"
            /\ KeySeq(a.pairs) = FieldNames("Address")
            /\ \A i \in 1..Len(a.pairs) : a.pairs[i].v = Get(given, a.pairs[i].k)

\* the errors of Address(**d), as they appear under the field address
UnderAddress(d) ==
    {[e EXCEPT !.loc = <<"address">> \o e.loc] : e \in SeqToSet(ModelInit("Address", d).errors)}

\* C8, amended: the nested record is validated recursively (an address given
\* as a dict fails the construction with the errors Address itself reports,
\* located under address; a constructed Patient holds an Address that
\* conforms), and the export expands it into a plain dict of exactly city,
\* state and pincode, never an instance, holding the validated values: the
\* supplied ones where they have the declared type, the coerced ones
\* otherwise.
C8_NestedValidated ==
    /\ (Constructed /\ IsNested /\ Has(raw, "address") /\ Get(raw, "address").t = "dict") =>
          /\ UnderAddress(Get(raw, "address").pairs) = {e \in Errors : ErrorField(e) = "address"}
          /\ ~ModelInit("Address", Get(raw, "address").pairs).ok => ~result.ok
    /\ (Constructed /\ IsNested /\ result.ok) =>
          /\ Get(inst.pairs, "address").t = "model"
          /\ Get(inst.pairs, "address").cls = "Address"
          /\ Conforms(Get(inst.pairs, "address"))
    /\ (Dumped /\ IsNested) =>
          LET a == Get(out.pairs, "address")
              given == Get(raw, "address").pairs
          IN  /\ a.t = "dict"
              /\ KeySeq(a.pairs) = FieldNames("Address")
              /\ \A i \in 1..Len(a.pairs) :
                    /\ a.pairs[i].v.t # "model"
                    /\ HasType(Address[i].type, a.pairs[i].v)
                    /\ a.pairs[i].v = Get(Get(inst.pairs, "address").pairs, a.pairs[i].k)
                    /\ HasType(Address[i].type, Get(given, a.pairs[i].k)) =>
                          a.pairs[i].v = Get(given, a.pairs[i].k)

\* an address given as a dict with the pincode "416312" is exported as a
\* dict with the pincode 416312
C8_Witness ==
    /\ Dumped /\ IsNested
    /\ Get(raw, "address").t = "dict"
    /\ Get(Get(raw, "address").pairs, "pincode") = PyStr(s_416312)
    /\ Get(Get(out.pairs, "address").pairs, "pincode") = PyInt(416312)

\* the arguments of a call that name a declared field
Declared(c, kwargs) == SelectSeq(kwargs, LAMBDA p : p.k \in SeqToSet(FieldNames(c)))

HasExtra == \E i \in 1..Len(raw) : raw[i].k \notin SeqToSet(FieldNames(cls))

\* C9: a key of the input that names no declared field changes nothing: the
\* construction gives what it gives without the key, an instance holds the
\* declared fields only, and the export is that of the input without the key
\* and has no key but the declared and the computed fields.
C9_ExtraIgnored ==
    /\ Constructed =>
          /\ result = ModelInit(cls, Declared(cls, raw))
          /\ result.ok => Keys(inst.pairs) = SeqToSet(FieldNames(cls))
    /\ Dumped =>
          /\ out = model_dump(ModelInit(cls, Declared(cls, raw)).inst).v
          /\ Keys(out.pairs) = SeqToSet(FieldNames(cls)) \cup SeqToSet(model_computed_fields(cls))
    /\ (op = "model_dump" /\ Untouched) => exc = model_dump(ModelInit(cls, Declared(cls, raw)).inst).exc

\* User(name=.., age=.., nickname="P") is exported without nickname
C9_Witness ==
    /\ Dumped /\ cls = "User" /\ HasExtra
    /\ Has(raw, "nickname") /\ ~Has(out.pairs, "nickname")
    /\ KeySeq(out.pairs) = <<"name", "age">>

\* C10 as stated: an instance holds, in every state, the values validated
\* at construction
C10_Immutable == inst.t = "model" => inst = result.inst

\* C10, amended: an instance is not immutable.  A read and an export leave
\* every field as it is; an assignment to a declared field succeeds without
\* validation and replaces that field's value alone; an assignment to a
\* computed field or to a name that is no field raises and changes nothing.
C10_AssignmentReplaces ==
    [][/\ op' \in {"getattr", "model_dump"} => inst' = inst
       /\ op' = "setattr" =>
             IF args'.name \in SeqToSet(FieldNames(cls))
             THEN /\ exc' = ""
                  /\ KeySeq(inst'.pairs) = KeySeq(inst.pairs)
                  /\ \A i \in 1..Len(inst.pairs) :
                        inst'.pairs[i].v =
                            IF inst.pairs[i].k = args'.name THEN args'.v ELSE inst.pairs[i].v
             ELSE exc' \in {"AttributeError", "ValueError"} /\ inst' = inst]_vars

\* patient.weight = 500.0 was accepted: the instance breaks lt=120
C10_Witness ==
    /\ op = "setattr" /\ exc = "" /\ cls = "Patient_field_validator"
    /\ Conforms(result.inst)
    /\ Get(inst.pairs, "weight") = PyFloat(50000)
    /\ ~Conforms(inst)

====
